---- MODULE Spec2Model ----
(***************************************************************************)
(* mentat: the context assembly engine (mentat/code_context.py).           *)
(*                                                                         *)
(* CodeContext keeps the user-included features (include_files), the       *)
(* ignored paths, the feature list of the last build (features) and a      *)
(* single-slot cache (_code_message, _code_message_checksum).              *)
(* get_code_message is an asyncio coroutine: every await of the build is a *)
(* point where another task, a file write or a cancellation may run.       *)
(*                                                                         *)
(* Units.  A file's content is its number of lines; one line costs one     *)
(* token per unit of the model's tokenizer scale, a path header one line.  *)
(* Paths are numbered in the order of pathlib's comparison of the          *)
(* repository-relative paths.                                              *)
(***************************************************************************)
EXTENDS Integers, Sequences, FiniteSets, TLC

\* ------------------------------------------------------------------ bounds
NumPaths == 2
MaxSize == 2
MaxBudget == 2
NumTasks == 2
MaxCalls == 2
MaxEnvChanges == 1
MaxIncludes == 2
BytesPerLine == 40000
MaxBuildBudget == 4

Paths == 1..NumPaths
Tasks == 1..NumTasks
Models == {"m1", "m2"}
Prompts == {"", "q"}
None == "None"

\* The token budgets a caller passes as max_tokens.
Budgets == {2 * k : k \in 1..MaxBudget}
BuildBudgets == {2 * k : k \in 1..MaxBuildBudget}

\* ------------------------------------------------------------- primitives
Max(a, b) == IF a >= b THEN a ELSE b
Min(a, b) == IF a <= b THEN a ELSE b

RECURSIVE SumSeq(_)
SumSeq(s) == IF s = <<>> THEN 0 ELSE Head(s) + SumSeq(Tail(s))

\* Python's sorted(s, key=...): stable and ascending, keys[i] the key of s[i].
SortedBy(s, keys) ==
    LET pos(i) == Cardinality({j \in 1..Len(s) :
                     keys[j] < keys[i] \/ (keys[j] = keys[i] /\ j < i)}) + 1
    IN  [k \in 1..Len(s) |-> s[CHOOSE i \in 1..Len(s) : pos(i) = k]]

\* --------------------------------------------------------------- features
\* CodeMessageLevel, least to most detail.
Levels == <<"FILE_NAME", "CMAP", "CMAP_FULL", "INTERVAL", "CODE">>
Rank(level) == CHOOSE i \in 1..Len(Levels) : Levels[i] = level

\* An interval is <<first line, last line>>, both included; a reference to a
\* whole file carries the interval that covers every line.
WholeFile == <<0, MaxSize + 1>>
LineIntervals == {<<s, e>> : s \in 1..MaxSize, e \in 1..MaxSize} \ {<<s, e>> \in (1..MaxSize) \X (1..MaxSize) : s > e}
Intersects(a, b) == a[1] <= b[2] /\ b[1] <= a[2]
LinesOf(interval, n) == {i \in 1..n : interval[1] <= i /\ i <= interval[2]}

DiffTarget == "HEAD"

CodeFeature(path, level, interval, diff, user_included) ==
    [path |-> path, level |-> level, interval |-> interval,
     diff |-> diff, user_included |-> user_included]

\* get_include_files([path], []) for one path specification: a whole file is
\* a CODE feature, a line range an INTERVAL feature.
IncludeFeature(path, interval) ==
    CodeFeature(path, IF interval = WholeFile THEN "CODE" ELSE "INTERVAL",
                interval, None, FALSE)

IncludeRefs == {WholeFile} \cup LineIntervals

\* A reference names the whole file or lines the file has.
InFile(interval, n) == interval = WholeFile \/ interval[2] <= n

\* ----------------------------------------------------------------- tokens
\* The tokenizer of a model: tokens per line of text.
TokenScale(model) == IF model = "m1" THEN 1 ELSE 2

\* The lines a feature renders to on its own, the path header included.  A
\* line is <<kind, path, number>>.
FeatureBody(f, n) ==
    LET k == IF f.level = "FILE_NAME" THEN 0
             ELSE IF f.level = "CMAP" THEN Min(n, 1)
             ELSE IF f.level = "CMAP_FULL" THEN Min(n, 2)
             ELSE 0
        code == LinesOf(f.interval, n)
    IN  IF f.level \in {"CODE", "INTERVAL"}
        THEN [i \in 1..Cardinality(code) |->
                <<"code", f.path, CHOOSE l \in code : Cardinality({m \in code : m < l}) = i - 1>>]
        ELSE [i \in 1..k |-> <<"cmap", f.path, i>>]

PathHeader(path, diff) == <<IF diff = None THEN "path" ELSE "path_diff", path, 0>>

LineTokens(line) == IF line[1] \in {"blank", "legend"} THEN 0 ELSE 1

count_tokens(lines, model) ==
    TokenScale(model) * SumSeq([i \in 1..Len(lines) |-> LineTokens(lines[i])])

FeatureTokens(f, content, model) ==
    count_tokens(<<PathHeader(f.path, f.diff)>> \o FeatureBody(f, content[f.path]), model)

count_feature_tokens(fs, content, model) ==
    [i \in 1..Len(fs) |-> FeatureTokens(fs[i], content, model)]

\* ------------------------------------------------------------ path orders
\* f.path.relative_to(git_root): pathlib compares by path components, the
\* order the paths are numbered in.
RelativeTo(path) == path

\* os.path.relpath(f.path, git_root): a string, compared character by
\* character.  Path 1 is "a/b.py" and path 2 is "a.b.py": pathlib puts 1
\* first (component "a" < "a.b.py"), the strings put 2 first ("." < "/").
RelPath(path) == IF path = 1 THEN 2 ELSE IF path = 2 THEN 1 ELSE path

\* --------------------------------------------------------- diff context
\* annotations[p]: the changed intervals of p against the diff target.
DiffFiles(annotations) == {p \in Paths : annotations[p] # {}}

\* -------------------------------------------------- _get_include_features
RECURSIVE IncludeItems(_, _)
IncludeItems(inc, ps) ==
    IF ps = {} THEN <<>>
    ELSE LET p == CHOOSE q \in ps : \A r \in ps : q <= r
         IN  inc[p] \o IncludeItems(inc, ps \ {p})

_get_include_features(inc, annotations) ==
    LET items == IncludeItems(inc, DOMAIN inc)
        made == [i \in 1..Len(items) |->
                   LET feature == items[i]
                       has_diff == \E a \in annotations[feature.path] :
                                      Intersects(a, feature.interval)
                   IN  CodeFeature(feature.path, feature.level, feature.interval,
                                   IF has_diff THEN DiffTarget ELSE None, TRUE)]
    IN  SortedBy(made, [i \in 1..Len(made) |-> RelPath(made[i].path)])

\* ------------------------------------------------------ _get_all_features
max_chars == 100000
getsize(n) == n * BytesPerLine

\* The structural splitter: one sub-range per line of the file; a sub-range
\* is user-included when a user feature of the file overlaps it.
split_file_into_intervals(full_feature, n, user_features) ==
    [i \in 1..n |->
        CodeFeature(full_feature.path, "INTERVAL", <<i, i>>, full_feature.diff,
                    \E k \in 1..Len(user_features) :
                        Intersects(user_features[k].interval, <<i, i>>))]

PathFeatures(path, inc, annotations, cm, level, content) ==
    LET diff_target == IF path \in DiffFiles(annotations) THEN DiffTarget ELSE None
        user_included == path \in DOMAIN inc
        full_feature == CodeFeature(path, "CODE", WholeFile, diff_target, user_included)
    IN  IF level = "INTERVAL"
        THEN IF ~cm THEN <<full_feature>>
             ELSE split_file_into_intervals(full_feature, content[path],
                      IF path \in DOMAIN inc THEN inc[path] ELSE <<>>)
        ELSE <<CodeFeature(path, level, WholeFile, diff_target, user_included)>>

Skipped(path, ign, content) ==
    path \in ign \/ getsize(content[path]) > max_chars

RECURSIVE AllFeaturesFrom(_, _, _, _, _, _, _)
AllFeaturesFrom(ps, inc, ign, annotations, cm, level, content) ==
    IF ps = {} THEN <<>>
    ELSE LET p == CHOOSE q \in ps : \A r \in ps : q >= r
             rest == AllFeaturesFrom(ps \ {p}, inc, ign, annotations, cm, level, content)
         IN  IF Skipped(p, ign, content) THEN rest
             ELSE PathFeatures(p, inc, annotations, cm, level, content) \o rest

\* get_non_gitignored_files yields the paths in no particular order (here:
\* descending); the sort puts them in path order.
_get_all_features_as_found(inc, ign, annotations, cm, level, content) ==
    AllFeaturesFrom(Paths, inc, ign, annotations, cm, level, content)

_get_all_features(inc, ign, annotations, cm, level, content) ==
    LET all_features == AllFeaturesFrom(Paths, inc, ign, annotations, cm, level, content)
    IN  SortedBy(all_features,
                 [i \in 1..Len(all_features) |-> RelativeTo(all_features[i].path)])

\* ------------------------------------------------- similarity ranking
\* search(): the catalog zipped with its scores, sorted by score, highest
\* first (sorted(..., reverse=True) keeps the order of equal scores).
SortedByScore(all_features, sim_scores) ==
    SortedBy(all_features, [i \in 1..Len(all_features) |-> 0 - sim_scores[i]])

\* ------------------------------------------------------ feature selector
FeatureKey(f) == <<f.path, f.interval>>

AtLevel(f, level) == [f EXCEPT !.level = level]

\* The levels a candidate is tried at: its own, then the fallback levels.
TryLevels(f, alt_levels) == <<f.level>> \o alt_levels

FitLevels(f, alt_levels, remaining, content, model) ==
    {k \in 1..Len(TryLevels(f, alt_levels)) :
        FeatureTokens(AtLevel(f, TryLevels(f, alt_levels)[k]), content, model) <= remaining}

\* The heuristic selector: candidates in rank order, each admitted at the
\* first level that fits what is left of the pool, or left out.
RECURSIVE GreedySelect(_, _, _, _, _, _)
GreedySelect(cands, remaining, out, alt_levels, content, model) ==
    IF cands = <<>> THEN out
    ELSE LET f == Head(cands)
             fit == FitLevels(f, alt_levels, remaining, content, model)
         IN  IF FeatureKey(f) \in {FeatureKey(out[i]) : i \in 1..Len(out)} \/ fit = {}
             THEN GreedySelect(Tail(cands), remaining, out, alt_levels, content, model)
             ELSE LET k == CHOOSE j \in fit : \A m \in fit : j <= m
                      g == AtLevel(f, TryLevels(f, alt_levels)[k])
                  IN  GreedySelect(Tail(cands),
                                   remaining - FeatureTokens(g, content, model),
                                   Append(out, g), alt_levels, content, model)

select(candidate_features, selectable_tokens, model, alt_levels, content) ==
    GreedySelect(candidate_features, selectable_tokens, <<>>, alt_levels, content, model)

\* ------------------------------------------------------- output assembly
\* One path's features, ordered by first line, under one header; a gap
\* marker between two code ranges that are not adjacent.
RECURSIVE RenderBodies(_, _, _)
RenderBodies(fs, n, prev_end) ==
    IF fs = <<>> THEN <<>>
    ELSE LET f == Head(fs)
             is_code == f.level \in {"CODE", "INTERVAL"}
             gap == IF is_code /\ prev_end >= 0 /\ f.interval[1] > prev_end + 1
                    THEN <<<<"gap", f.path, f.interval[1]>>>> ELSE <<>>
         IN  gap \o FeatureBody(f, n)
                 \o RenderBodies(Tail(fs), n, IF is_code THEN f.interval[2] ELSE prev_end)

RenderPath(path, fs, content) ==
    LET mine == SelectSeq(fs, LAMBDA f : f.path = path)
        ordered == SortedBy(mine, [i \in 1..Len(mine) |-> mine[i].interval[1]])
        diff == IF \E i \in 1..Len(mine) : mine[i].diff # None THEN DiffTarget ELSE None
    IN  IF mine = <<>> THEN <<>>
        ELSE <<PathHeader(path, diff)>> \o RenderBodies(ordered, content[path], 0 - 1)

RECURSIVE RenderFrom(_, _, _)
RenderFrom(path, fs, content) ==
    IF path > NumPaths THEN <<>>
    ELSE RenderPath(path, fs, content) \o RenderFrom(path + 1, fs, content)

get_code_message_from_features(fs, content) == RenderFrom(1, fs, content)

\* The preamble of _get_code_message, before any feature.
MetaLines(annotations) ==
    (IF DiffFiles(annotations) # {}
     THEN <<<<"text", 0, 1>>, <<"legend", 0, 1>>, <<"legend", 0, 2>>, <<"blank", 0, 1>>>>
     ELSE <<>>) \o <<<<"text", 0, 2>>, <<"blank", 0, 2>>>>

\* ------------------------------------------------------------------ state
VARIABLES
    content,                \* the repository: path -> number of lines
    annotations,            \* diff_context: path -> changed intervals
    ctags_disabled,         \* check_ctags_disabled() reports a reason
    config,                 \* session config: auto_tokens, use_embeddings, no_code_map
    include_files,          \* CodeContext.include_files: path -> list of features
    ignore_files,           \* CodeContext.ignore_files
    code_map,               \* CodeContext.code_map
    features,               \* CodeContext.features
    _code_message,          \* the cache slot: the message ...
    _code_message_checksum, \* ... and its checksum
    pc,                     \* per task: where its get_code_message call is
    frame,                  \* per task: the locals of its call
    calls,                  \* get_code_message calls made so far
    env_changes,            \* changes made by the session or the file system so far
    last                    \* the step taken last

vars == <<content, annotations, ctags_disabled, config, include_files, ignore_files,
          code_map, features, _code_message, _code_message_checksum, pc, frame,
          calls, env_changes, last>>

\* ------------------------------------------------- the event bus (Broadcast)
NumChannels == 2
MaxPublish == 3
NumQueues == 2

Channels == 1..NumChannels
Queues == 1..NumQueues      \* the queue made by the k-th subscribe context

VARIABLES
    _subscribed,            \* MemoryBackend._subscribed
    _missed_events,         \* MemoryBackend._missed_events: channel -> events
    _published,             \* MemoryBackend._published: the events in the queue ...
    _unfinished_tasks,      \* ... and its count of items not yet task_done
    _subscribers,           \* Broadcast._subscribers: channel -> set of queues
    context,                \* per subscribe context: where it is, and its channel
    queue,                  \* per subscribe context: the items in its queue
    received,               \* per subscribe context: what Subscriber.get took
    joiner,                 \* the caller of Broadcast.join
    publishes,              \* the publish calls made so far
    replayed,               \* per subscribe context: the missed events it replayed
    dispatched              \* per message: the queues the listener put it in

bvars == <<_subscribed, _missed_events, _published, _unfinished_tasks, _subscribers,
           context, queue, received, joiner, publishes, replayed, dispatched>>

NotDispatched == {0}

\* After Broadcast() and connect(): nothing subscribed, the listener waiting.
BroadcastInit ==
    /\ _subscribed = {}
    /\ _missed_events = [c \in Channels |-> <<>>]
    /\ _published = <<>>
    /\ _unfinished_tasks = 0
    /\ _subscribers = <<>>
    /\ context = [q \in Queues |-> [at |-> "new", channel |-> 0]]
    /\ queue = [q \in Queues |-> <<>>]
    /\ received = [q \in Queues |-> <<>>]
    /\ joiner = [at |-> "idle", seen |-> 0, waited |-> FALSE]
    /\ publishes = <<>>
    /\ replayed = [q \in Queues |-> <<>>]
    /\ dispatched = [m \in 1..MaxPublish |-> NotDispatched]

\* auto_tokens is None (no limit) or a number of tokens.
AutoNone == 0 - 1
AutoLimit == 2
AutoTokenValues == {AutoNone, 0, AutoLimit}

use_llm == FALSE
diff == None
pr_diff == None

NoMessage == <<>>
NoChecksum == <<>>

\* The locals of get_code_message and _get_code_message.
NoFrame ==
    [prompt |-> "", model |-> "m1", max_tokens |-> 0,
     code_message_checksum |-> NoChecksum,
     code_message |-> <<>>, meta_tokens |-> 0,
     included_features |-> <<>>, included_feature_tokens |-> 0,
     auto_tokens |-> 0, selectable_tokens |-> 0,
     candidate_features |-> <<>>, alt_levels |-> <<>>, selected |-> FALSE]

NoStep == [kind |-> "init", max_tokens |-> 0, ret |-> NoMessage]

\* The record of a step: its kind, its task, where the task was, the locals
\* of the call, what the call returned, and - for a step that begins a call -
\* the step before it.
Step(kind, t, at, fr, ret, prev) ==
    [kind |-> kind, task |-> t, at |-> at, call |-> fr, ret |-> ret, prev |-> prev]

Before == [kind |-> last.kind, max_tokens |-> last.call.max_tokens, ret |-> last.ret]

Params(prompt, model, max_tokens) ==
    [NoFrame EXCEPT !.prompt = prompt, !.model = model, !.max_tokens = max_tokens]

Summary(fr) == [fr EXCEPT !.candidate_features = <<>>, !.alt_levels = <<>>,
                          !.code_message_checksum = NoChecksum]

\* ----------------------------------------------------------- the checksum
RECURSIVE FileChecksums(_, _)
FileChecksums(ps, cont) ==
    IF ps = {} THEN <<>>
    ELSE LET p == CHOOSE q \in ps : \A r \in ps : q <= r
         IN  <<cont[p]>> \o FileChecksums(ps \ {p}, cont)

Checksum(fs, cm, cfg, inc, cont, max_tokens) ==
    LET features_checksum ==
            IF fs = <<>> THEN <<>>
            ELSE FileChecksums({fs[i].path : i \in 1..Len(fs)}, cont)
        settings ==
            [code_map |-> cm, auto_tokens |-> cfg.auto_tokens,
             use_embeddings |-> cfg.use_embeddings, use_llm |-> use_llm,
             diff |-> diff, pr_diff |-> pr_diff, max_tokens |-> max_tokens,
             include_files |-> inc]
    IN  <<features_checksum, settings>>

_get_code_message_checksum(max_tokens) ==
    Checksum(features, code_map, config, include_files, content, max_tokens)

\* get_code_message, lines 229-232: the condition under which it builds.
NeedsBuildFirstCallOnly(message, stored_checksum, code_message_checksum) ==
    message = NoMessage

NeedsBuild(message, stored_checksum, code_message_checksum) ==
    message = NoMessage \/ code_message_checksum # stored_checksum

\* Line 233, `self._code_message = await ...`: the slot is assigned when the
\* awaited build returns, and keeps its value while it has not.
AwaitAssignEager(returned, old, value) == value

AwaitAssign(returned, old, value) == IF returned THEN value ELSE old

\* Line 236: the checksum stored is taken after the build, not the one the
\* call computed on entry.
StoredChecksumOnEntry(code_message_checksum, after_build) == code_message_checksum

StoredChecksum(code_message_checksum, after_build) == after_build

\* get_include_files(paths, exclude_paths): a whole-file feature per path.
get_include_files(paths) == [p \in paths |-> <<IncludeFeature(p, WholeFile)>>]

\* ---------------------------------------------------------------- Init
\* After construction and the session's first set_paths.
Init ==
    /\ content = [p \in Paths |-> MaxSize]
    /\ annotations = [p \in Paths |-> {}]
    /\ ctags_disabled \in BOOLEAN
    /\ config \in [auto_tokens : {AutoNone}, use_embeddings : BOOLEAN,
                    no_code_map : {FALSE}]
    /\ include_files \in {get_include_files(paths) : paths \in {{}, {1}}}
    /\ ignore_files = {}
    /\ code_map = TRUE
    /\ features = <<>>
    /\ _code_message = NoMessage
    /\ _code_message_checksum = NoChecksum
    /\ pc = [t \in Tasks |-> "idle"]
    /\ frame = [t \in Tasks |-> NoFrame]
    /\ calls = 0
    /\ env_changes = 0
    /\ last = Step("init", 0, "idle", NoFrame, NoMessage, NoStep)
    /\ BroadcastInit

\* ------------------------------------------------------- get_code_message
Idle == \A t \in Tasks : pc[t] = "idle"

\* set_code_map: <<code_map, config>> afterwards.
set_code_map(cfg, disabled_reason) ==
    IF cfg.no_code_map THEN <<FALSE, cfg>>
    ELSE IF disabled_reason THEN <<FALSE, [cfg EXCEPT !.no_code_map = TRUE]>>
    ELSE <<TRUE, cfg>>

\* Lines 272-284: what is left of max_tokens, and the pool the selector
\* may spend on features that the user did not include.
RemainingTokensNoMeta(max_tokens, meta_tokens, included_feature_tokens) ==
    Max(0, max_tokens - included_feature_tokens)

RemainingTokens(max_tokens, meta_tokens, included_feature_tokens) ==
    Max(0, max_tokens - meta_tokens - included_feature_tokens)

SkipsSelection(remaining_tokens, cfg_auto_tokens) ==
    remaining_tokens = 0 \/ cfg_auto_tokens = 0

AutoTokensUnclamped(remaining_tokens, cfg_auto_tokens) == remaining_tokens

AutoTokens(remaining_tokens, cfg_auto_tokens) ==
    IF cfg_auto_tokens = AutoNone THEN remaining_tokens
    ELSE Min(remaining_tokens, cfg_auto_tokens)

SelectableTokens(included_feature_tokens, auto_tokens) ==
    included_feature_tokens + auto_tokens

\* Lines 303-305: the included candidates first.
UserFirstAsRanked(candidate_features) == candidate_features

UserFirst(candidate_features) ==
    SelectSeq(candidate_features, LAMBDA f : f.user_included)
        \o SelectSeq(candidate_features, LAMBDA f : ~f.user_included)

\* Lines 307-312.
AltLevels(cm) ==
    IF cm THEN <<"CMAP_FULL", "CMAP", "FILE_NAME">> ELSE <<"FILE_NAME">>

\* Lines 274-277: the feature list when selection is skipped.
IncludedOnlyAsGiven(included_features) == included_features

IncludedOnly(included_features) ==
    SortedBy(included_features,
             [i \in 1..Len(included_features) |-> RelativeTo(included_features[i].path)])

\* Lines 325-326: the message of a build.
BuildMessage(code_message, fs, cont) ==
    code_message \o get_code_message_from_features(fs, cont)

\* Lines 325-326 and 233-237: the build's last, synchronous stretch.  The
\* feature list is replaced, the message rendered and stored, and the
\* checksum taken anew over the state the build leaves.
Finish(t, fr, fs) ==
    LET message == BuildMessage(fr.code_message, fs, content)
    IN  /\ features' = fs
        /\ _code_message' = AwaitAssign(TRUE, _code_message, message)
        /\ _code_message_checksum' =
               StoredChecksum(fr.code_message_checksum,
                   Checksum(fs, code_map, config, include_files, content, fr.max_tokens))
        /\ pc' = [pc EXCEPT ![t] = "idle"]
        /\ frame' = [frame EXCEPT ![t] = NoFrame]
        /\ last' = Step("built", t, pc[t], Summary(fr), message, NoStep)

\* The build is suspended at an await: the cache slot is not assigned yet.
Suspend(t, kind, at, fr) ==
    /\ pc' = [pc EXCEPT ![t] = at]
    /\ frame' = [frame EXCEPT ![t] = fr]
    /\ _code_message' = AwaitAssign(FALSE, _code_message, fr.code_message)
    /\ last' = Step(kind, t, pc[t], Params(fr.prompt, fr.model, fr.max_tokens), NoMessage,
                    IF kind = "start" THEN Before ELSE NoStep)
    /\ UNCHANGED <<features, _code_message_checksum>>

\* _get_code_message, lines 250-268: the locals at `await count_feature_tokens`.
StartBuild(prompt, model, max_tokens, code_message_checksum, inc, annot) ==
    LET meta == MetaLines(annot)
    IN  [Params(prompt, model, max_tokens) EXCEPT
           !.code_message_checksum = code_message_checksum,
           !.code_message = meta,
           !.meta_tokens = count_tokens(meta, model),
           !.included_features = _get_include_features(inc, annot)]

\* Lines 269-312, from the answer of count_feature_tokens to the next await
\* or, when selection is skipped, to the feature list of the build.
AfterCount(f0, cfg, cm, inc, ign, annot, cont) ==
    LET included_feature_tokens ==
            SumSeq(count_feature_tokens(f0.included_features, cont, f0.model))
        remaining_tokens ==
            RemainingTokens(f0.max_tokens, f0.meta_tokens, included_feature_tokens)
        f1 == [f0 EXCEPT !.included_feature_tokens = included_feature_tokens,
                         !.auto_tokens = cfg.auto_tokens]
        auto_tokens == AutoTokens(remaining_tokens, cfg.auto_tokens)
        all_features == _get_all_features(inc, ign, annot, cm, "INTERVAL", cont)
        f2 == [f1 EXCEPT
                 !.auto_tokens = auto_tokens,
                 !.selectable_tokens =
                     SelectableTokens(included_feature_tokens, auto_tokens),
                 !.selected = TRUE]
    IN  IF SkipsSelection(remaining_tokens, cfg.auto_tokens)
        THEN [at |-> "idle", call |-> f1,
              features |-> IncludedOnly(f0.included_features)]
        ELSE IF f0.prompt # "" /\ cfg.use_embeddings
        THEN [at |-> "search", features |-> <<>>,
              call |-> [f2 EXCEPT !.candidate_features = all_features]]
        ELSE [at |-> "select", features |-> <<>>,
              call |-> [f2 EXCEPT !.candidate_features = UserFirst(all_features),
                                  !.alt_levels = AltLevels(cm)]]

\* search(), lines 398-404, and lines 291-312: the candidates in the order
\* of their similarity scores; `high` are the places of the catalog that
\* score high.
AfterSearch(f0, high, cm) ==
    LET all_features == f0.candidate_features
        sim_scores == [i \in 1..Len(all_features) |-> IF i \in high THEN 1 ELSE 0]
    IN  [f0 EXCEPT
           !.candidate_features = UserFirst(SortedByScore(all_features, sim_scores)),
           !.alt_levels = AltLevels(cm)]

\* Lines 314-322: the features the selector returns.
Selected(fr, cont) ==
    select(fr.candidate_features, fr.selectable_tokens, fr.model, fr.alt_levels, cont)

\* _get_code_message run from the present state without interruption: the
\* feature list and the message it produces.
_get_code_message(prompt, model, max_tokens, high) ==
    LET cm == set_code_map(config, ctags_disabled)
        f0 == StartBuild(prompt, model, max_tokens, NoChecksum, include_files,
                         annotations)
        c == AfterCount(f0, cm[2], cm[1], include_files, ignore_files, annotations,
                        content)
        f1 == IF c.at = "search"
              THEN AfterSearch(c.call, high \cap (1..Len(c.call.candidate_features)),
                               cm[1])
              ELSE c.call
        fs == IF c.at = "idle" THEN c.features ELSE Selected(f1, content)
    IN  [features |-> fs, message |-> BuildMessage(f0.code_message, fs, content)]

\* get_code_message up to its first await: a cache hit returns at once; a
\* miss runs _get_code_message down to `await count_feature_tokens`.
Call(t, prompt, model, max_tokens) ==
    /\ pc[t] = "idle"
    /\ \A u \in Tasks : u < t => pc[u] # "idle"   \* tasks are interchangeable
    /\ calls < MaxCalls
    /\ calls' = calls + 1
    /\ LET code_message_checksum == _get_code_message_checksum(max_tokens)
       IN  IF NeedsBuild(_code_message, _code_message_checksum, code_message_checksum)
           THEN LET cm == set_code_map(config, ctags_disabled)
                IN  /\ code_map' = cm[1]
                    /\ config' = cm[2]
                    /\ Suspend(t, "start", "count",
                               StartBuild(prompt, model, max_tokens,
                                          code_message_checksum, include_files,
                                          annotations))
           ELSE /\ last' = Step("hit", t, "idle", Params(prompt, model, max_tokens),
                                _code_message, Before)
                /\ UNCHANGED <<code_map, config, pc, frame, features, _code_message,
                               _code_message_checksum>>
    /\ UNCHANGED <<content, annotations, ctags_disabled, include_files, ignore_files,
                   env_changes>>
    /\ UNCHANGED bvars

\* count_feature_tokens has answered.
CountDone(t) ==
    /\ pc[t] = "count"
    /\ LET c == AfterCount(frame[t], config, code_map, include_files, ignore_files,
                           annotations, content)
       IN  IF c.at = "idle" THEN Finish(t, c.call, c.features)
           ELSE Suspend(t, "count", c.at, c.call)
    /\ UNCHANGED <<content, annotations, ctags_disabled, config, include_files,
                   ignore_files, code_map, calls, env_changes>>
    /\ UNCHANGED bvars

\* get_feature_similarity_scores has answered.
SearchDone(t, high) ==
    /\ pc[t] = "search"
    /\ high \subseteq 1..Len(frame[t].candidate_features)
    /\ Suspend(t, "search", "select", AfterSearch(frame[t], high, code_map))
    /\ UNCHANGED <<content, annotations, ctags_disabled, config, include_files,
                   ignore_files, code_map, calls, env_changes>>
    /\ UNCHANGED bvars

\* feature_selector.select has answered: lines 315-326 and 233-237.
SelectDone(t) ==
    /\ pc[t] = "select"
    /\ Finish(t, frame[t], Selected(frame[t], content))
    /\ UNCHANGED <<content, annotations, ctags_disabled, config, include_files,
                   ignore_files, code_map, calls, env_changes>>
    /\ UNCHANGED bvars

\* The task is cancelled, or the awaited call raises, while the build is
\* suspended: the coroutine unwinds and nothing more of it runs.
Cancel(t) ==
    /\ pc[t] \in {"count", "search", "select"}
    /\ pc' = [pc EXCEPT ![t] = "idle"]
    /\ frame' = [frame EXCEPT ![t] = NoFrame]
    /\ _code_message' = AwaitAssign(FALSE, _code_message, frame[t].code_message)
    /\ last' = Step("cancel", t, pc[t], NoFrame, NoMessage, NoStep)
    /\ UNCHANGED <<content, annotations, ctags_disabled, config, include_files,
                   ignore_files, code_map, features, _code_message_checksum, calls,
                   env_changes>>
    /\ UNCHANGED bvars

\* get_code_message_from_features raises at line 325 (a file of a selected
\* feature can no longer be read): line 275 or 315 has assigned
\* self.features already, and lines 233-236 never run.
RenderFails(t) ==
    /\ pc[t] \in {"count", "select"}
    /\ LET c == AfterCount(frame[t], config, code_map, include_files, ignore_files,
                           annotations, content)
       IN  /\ pc[t] = "count" => c.at = "idle"
           /\ features' = IF pc[t] = "count" THEN c.features
                          ELSE Selected(frame[t], content)
    /\ pc' = [pc EXCEPT ![t] = "idle"]
    /\ frame' = [frame EXCEPT ![t] = NoFrame]
    /\ _code_message' = AwaitAssign(FALSE, _code_message, frame[t].code_message)
    /\ last' = Step("failed", t, pc[t], NoFrame, NoMessage, NoStep)
    /\ UNCHANGED <<content, annotations, ctags_disabled, config, include_files,
                   ignore_files, code_map, _code_message_checksum, calls, env_changes>>
    /\ UNCHANGED bvars

\* ------------------------------------------------------------ the session
\* The owning session changes the include set and the ignored paths only
\* between builds (the single-writer discipline of the engine's callers);
\* files are written at any time.
EnvStep ==
    /\ env_changes < MaxEnvChanges
    /\ env_changes' = env_changes + 1
    /\ last' = Step("env", 0, "idle", NoFrame, NoMessage, NoStep)

set_paths(paths, ignore_paths) ==
    /\ Idle
    /\ EnvStep
    /\ include_files' = get_include_files(paths)
    /\ ignore_files' = ignore_paths
    /\ UNCHANGED <<content, annotations, ctags_disabled, config, code_map, features,
                   _code_message, _code_message_checksum, pc, frame, calls>>
    /\ UNCHANGED bvars

include_file(path, interval) ==
    /\ Idle
    /\ EnvStep
    /\ InFile(interval, content[path])
    /\ LET new_features == <<IncludeFeature(path, interval)>>
           old == IF path \in DOMAIN include_files THEN include_files[path] ELSE <<>>
       IN  /\ Len(old) < MaxIncludes
           /\ include_files' =
                  [p \in DOMAIN include_files \cup {path} |->
                      IF p = path THEN old \o new_features ELSE include_files[p]]
    /\ UNCHANGED <<content, annotations, ctags_disabled, config, ignore_files, code_map,
                   features, _code_message, _code_message_checksum, pc, frame, calls>>
    /\ UNCHANGED bvars

exclude_file(path) ==
    /\ Idle
    /\ EnvStep
    /\ path \in DOMAIN include_files
    /\ include_files' = [p \in DOMAIN include_files \ {path} |-> include_files[p]]
    /\ UNCHANGED <<content, annotations, ctags_disabled, config, ignore_files, code_map,
                   features, _code_message, _code_message_checksum, pc, frame, calls>>
    /\ UNCHANGED bvars

\* A file of the repository is rewritten: it now has n lines and differs
\* from the diff target in its first line.
WriteFile(path, n) ==
    /\ EnvStep
    /\ n # content[path]
    /\ content' = [content EXCEPT ![path] = n]
    /\ annotations' = [annotations EXCEPT ![path] = {<<1, 1>>}]
    /\ UNCHANGED <<ctags_disabled, config, include_files, ignore_files, code_map,
                   features, _code_message, _code_message_checksum, pc, frame, calls>>
    /\ UNCHANGED bvars

\* ------------------------------------------------------------------ Next
Next ==
    \/ \E t \in Tasks, prompt \in Prompts, model \in Models, max_tokens \in Budgets :
          Call(t, prompt, model, max_tokens)
    \/ \E t \in Tasks : CountDone(t)
    \/ \E t \in Tasks, high \in SUBSET (1..(NumPaths * MaxSize)) : SearchDone(t, high)
    \/ \E t \in Tasks : SelectDone(t)
    \/ \E t \in Tasks : Cancel(t)
    \/ \E t \in Tasks : RenderFails(t)
    \/ \E paths \in SUBSET Paths, ignore_paths \in SUBSET Paths :
          set_paths(paths, ignore_paths)
    \/ \E path \in Paths, interval \in IncludeRefs : include_file(path, interval)
    \/ \E path \in Paths : exclude_file(path)
    \/ \E path \in Paths, n \in 1..MaxSize : WriteFile(path, n)

Spec == Init /\ [][Next]_vars

\* ------------------------------------------------- one build, any inputs
\* A session whose include set, ignored paths, files and configuration are
\* anything the session operations can make them, about to make one call.
PinChoices == {<<>>} \cup {<<IncludeFeature(0, r)>> : r \in IncludeRefs}

PinsOf(choice) ==
    [p \in {q \in Paths : choice[q] # <<>>} |->
        <<[choice[p][1] EXCEPT !.path = p]>>]

InitBuild ==
    /\ content \in [Paths -> 1..MaxSize]
    /\ annotations \in {[p \in Paths |-> IF p \in d THEN {<<1, 1>>} ELSE {}] :
                          d \in {{}, {1}}}
    /\ ctags_disabled \in BOOLEAN
    /\ config \in [auto_tokens : AutoTokenValues, use_embeddings : BOOLEAN,
                    no_code_map : {FALSE}]
    /\ include_files \in {PinsOf(c) : c \in [Paths -> PinChoices]}
    /\ \A p \in DOMAIN include_files : InFile(include_files[p][1].interval, content[p])
    /\ ignore_files \in SUBSET Paths
    /\ code_map = TRUE
    /\ features = <<>>
    /\ _code_message = NoMessage
    /\ _code_message_checksum = NoChecksum
    /\ pc = [t \in Tasks |-> "idle"]
    /\ frame = [t \in Tasks |-> NoFrame]
    /\ calls = MaxCalls - 1
    /\ env_changes = MaxEnvChanges
    /\ last = Step("init", 0, "idle", NoFrame, NoMessage, NoStep)
    /\ BroadcastInit

NextBuild ==
    \/ \E t \in Tasks, prompt \in Prompts, model \in Models, max_tokens \in BuildBudgets :
          Call(t, prompt, model, max_tokens)
    \/ \E t \in Tasks : CountDone(t)
    \/ \E t \in Tasks, high \in SUBSET (1..(NumPaths * MaxSize)) : SearchDone(t, high)
    \/ \E t \in Tasks : SelectDone(t)
    \/ \E t \in Tasks : Cancel(t)

SpecBuild == InitBuild /\ [][NextBuild]_vars

\* ============================================================ Broadcast
Event(channel, message) == [channel |-> channel, message |-> message]

\* The None that ends a Queue[Event | None].
NoEvent == Event(0, 0)

\* The fields of the MemoryBackend.
Backend ==
    [_subscribed |-> _subscribed, _missed_events |-> _missed_events,
     _published |-> _published, _unfinished_tasks |-> _unfinished_tasks]

\* MemoryBackend.publish (and publish_async: the queue has no maximum size,
\* so its put never waits).
backend_publish_first(b, channel, message) ==
    LET event == Event(channel, message)
    IN  IF channel \in b._subscribed
        THEN [b EXCEPT !._published = <<event>> \o @,
                       !._unfinished_tasks = @ + 1]
        ELSE [b EXCEPT !._missed_events[channel] = Append(@, event)]

backend_publish(b, channel, message) ==
    LET event == Event(channel, message)
    IN  IF channel \in b._subscribed
        THEN [b EXCEPT !._published = Append(@, event),
                       !._unfinished_tasks = @ + 1]
        ELSE [b EXCEPT !._missed_events[channel] = Append(@, event)]

RECURSIVE Replay(_, _)
Replay(b, events) ==
    IF events = <<>> THEN b
    ELSE Replay(backend_publish(b, Head(events).channel, Head(events).message),
                Tail(events))

\* MemoryBackend.subscribe.
backend_subscribe(b, channel) ==
    LET b1 == [b EXCEPT !._subscribed = @ \cup {channel}]
        b2 == Replay(b1, b1._missed_events[channel])
    IN  [b2 EXCEPT !._missed_events[channel] = <<>>]

\* MemoryBackend.unsubscribe.
backend_unsubscribe(b, channel) == [b EXCEPT !._subscribed = @ \ {channel}]

SetBackend(b) ==
    /\ _subscribed' = b._subscribed
    /\ _missed_events' = b._missed_events
    /\ _published' = b._published
    /\ _unfinished_tasks' = b._unfinished_tasks

\* self._subscribers.get(channel, set())
SubscribersOf(subscribers, channel) ==
    IF channel \in DOMAIN subscribers THEN subscribers[channel] ELSE {}

\* asyncio.Queue: join returns once every item put has been task_done.
FinishedAlways(unfinished_tasks) == TRUE

Finished(unfinished_tasks) == unfinished_tasks = 0

\* Broadcast.publish.
publish(channel) ==
    /\ Len(publishes) < MaxPublish
    /\ SetBackend(backend_publish(Backend, channel, Len(publishes) + 1))
    /\ publishes' = Append(publishes, [channel |-> channel,
                                       subscribed |-> channel \in _subscribed])
    /\ UNCHANGED <<_subscribers, context, queue, received, joiner, replayed,
                   dispatched>>
    /\ UNCHANGED vars

\* Broadcast.subscribe, lines 127-135: down to the yield.
subscribe(q, channel) ==
    /\ context[q].at = "new"
    /\ \A p \in Queues : p < q => context[p].at # "new"
    /\ context' = [context EXCEPT ![q] = [at |-> "open", channel |-> channel]]
    /\ IF SubscribersOf(_subscribers, channel) = {}
       THEN /\ SetBackend(backend_subscribe(Backend, channel))
            /\ replayed' = [replayed EXCEPT ![q] = _missed_events[channel]]
            /\ _subscribers' =
                   [c \in DOMAIN _subscribers \cup {channel} |->
                       IF c = channel THEN {q} ELSE _subscribers[c]]
       ELSE /\ _subscribers' = [_subscribers EXCEPT ![channel] = @ \cup {q}]
            /\ UNCHANGED <<_subscribed, _missed_events, _published, _unfinished_tasks,
                           replayed>>
    /\ UNCHANGED <<queue, received, joiner, publishes, dispatched>>
    /\ UNCHANGED vars

\* Lines 136-142: the body of the with statement ends normally.
leave(q) ==
    /\ context[q].at = "open"
    /\ LET channel == context[q].channel
           rest == _subscribers[channel] \ {q}
       IN  IF rest = {}
           THEN /\ _subscribers' =
                       [c \in DOMAIN _subscribers \ {channel} |-> _subscribers[c]]
                /\ SetBackend(backend_unsubscribe(Backend, channel))
           ELSE /\ _subscribers' = [_subscribers EXCEPT ![channel] = rest]
                /\ UNCHANGED <<_subscribed, _missed_events, _published,
                               _unfinished_tasks>>
    /\ context' = [context EXCEPT ![q].at = "left"]
    /\ queue' = [queue EXCEPT ![q] = Append(@, NoEvent)]
    /\ UNCHANGED <<received, joiner, publishes, replayed, dispatched>>
    /\ UNCHANGED vars

\* The same exit without the finally clause of lines 141-142.
body_raises_unmarked(q) ==
    /\ context[q].at = "open"
    /\ context' = [context EXCEPT ![q].at = "raised"]
    /\ UNCHANGED <<_subscribed, _missed_events, _published, _unfinished_tasks,
                   _subscribers, queue, received, joiner, publishes, replayed,
                   dispatched>>
    /\ UNCHANGED vars

\* The body of the with statement raises: the exception is thrown into the
\* generator at the yield of line 135, and of lines 136-142 only the
\* finally clause runs.
body_raises(q) ==
    /\ context[q].at = "open"
    /\ context' = [context EXCEPT ![q].at = "raised"]
    /\ queue' = [queue EXCEPT ![q] = Append(@, NoEvent)]
    /\ UNCHANGED <<_subscribed, _missed_events, _published, _unfinished_tasks,
                   _subscribers, received, joiner, publishes, replayed, dispatched>>
    /\ UNCHANGED vars

\* One round of Broadcast._listener: next_published takes the event and
\* marks it done, and the event is put in the queue of every subscriber of
\* its channel; no await lies between the two.
_listener ==
    /\ _published # <<>>
    /\ LET event == Head(_published)
           to == SubscribersOf(_subscribers, event.channel)
       IN  /\ _published' = Tail(_published)
           /\ _unfinished_tasks' = _unfinished_tasks - 1
           /\ queue' = [q \in Queues |->
                           IF q \in to THEN Append(queue[q], event) ELSE queue[q]]
           /\ dispatched' = [dispatched EXCEPT ![event.message] = to]
           /\ joiner' = IF joiner.at = "waiting" /\ Finished(_unfinished_tasks - 1)
                        THEN [joiner EXCEPT !.at = "woken"] ELSE joiner
    /\ UNCHANGED <<_subscribed, _missed_events, _subscribers, context, received,
                   publishes, replayed>>
    /\ UNCHANGED vars

\* Subscriber.get: the next item of the queue; None raises Unsubscribed.
get(q) ==
    /\ queue[q] # <<>>
    /\ queue' = [queue EXCEPT ![q] = Tail(@)]
    /\ received' = [received EXCEPT ![q] = Append(@, Head(queue[q]))]
    /\ UNCHANGED <<_subscribed, _missed_events, _published, _unfinished_tasks,
                   _subscribers, context, joiner, publishes, replayed, dispatched>>
    /\ UNCHANGED vars

\* Broadcast.join is called: it returns at once when nothing is unfinished,
\* and waits otherwise.
join ==
    /\ joiner.at = "idle"
    /\ joiner' = [at |-> IF Finished(_unfinished_tasks) THEN "returned" ELSE "waiting",
                  seen |-> Len(publishes), waited |-> ~Finished(_unfinished_tasks)]
    /\ UNCHANGED <<_subscribed, _missed_events, _published, _unfinished_tasks,
                   _subscribers, context, queue, received, publishes, replayed, dispatched>>
    /\ UNCHANGED vars

\* The waiting join, woken by the last task_done, returns.
join_returns ==
    /\ joiner.at = "woken"
    /\ joiner' = [joiner EXCEPT !.at = "returned"]
    /\ UNCHANGED <<_subscribed, _missed_events, _published, _unfinished_tasks,
                   _subscribers, context, queue, received, publishes, replayed, dispatched>>
    /\ UNCHANGED vars

InitBroadcast ==
    /\ content = [p \in Paths |-> MaxSize]
    /\ annotations = [p \in Paths |-> {}]
    /\ ctags_disabled = FALSE
    /\ config = [auto_tokens |-> AutoNone, use_embeddings |-> FALSE,
                 no_code_map |-> FALSE]
    /\ include_files = get_include_files({})
    /\ ignore_files = {}
    /\ code_map = TRUE
    /\ features = <<>>
    /\ _code_message = NoMessage
    /\ _code_message_checksum = NoChecksum
    /\ pc = [t \in Tasks |-> "idle"]
    /\ frame = [t \in Tasks |-> NoFrame]
    /\ calls = 0
    /\ env_changes = 0
    /\ last = Step("init", 0, "idle", NoFrame, NoMessage, NoStep)
    /\ BroadcastInit

NextBroadcast ==
    \/ \E channel \in Channels : publish(channel)
    \/ \E q \in Queues, channel \in Channels : subscribe(q, channel)
    \/ \E q \in Queues : leave(q)
    \/ \E q \in Queues : body_raises(q)
    \/ _listener
    \/ \E q \in Queues : get(q)
    \/ join
    \/ join_returns

SpecBroadcast == InitBroadcast /\ [][NextBroadcast]_bvars

\* ================================================================ claims
Built == last.kind = "built"

\* Tokens of the message a completed call returned, counted with its model.
ReturnedTokens == count_tokens(last.ret, last.call.model)

\* What the preamble and the included features of the build cost together.
ReservedTokens == last.call.meta_tokens + last.call.included_feature_tokens

\* C1, as stated: the message returned by every completed call has at most
\* max_tokens tokens, counted with the call's model.
C1_Stated ==
    last.kind \in {"built", "hit"} => ReturnedTokens <= last.call.max_tokens

\* C1, amended: the message of every completed build whose preamble and
\* included features fit max_tokens has at most max_tokens tokens, counted
\* with the build's model.
C1_MessageWithinBudget ==
    Built /\ ReservedTokens <= last.call.max_tokens
        => ReturnedTokens <= last.call.max_tokens

\* A build that ran the selector and filled max_tokens to the last token
\* with features of more than one path.
C1_Witness ==
    /\ Built /\ last.call.selected
    /\ ReturnedTokens = last.call.max_tokens
    /\ Cardinality({features[i].path : i \in 1..Len(features)}) > 1

AnyScores == SUBSET (1..(NumPaths * MaxSize))

\* C2: when the checksum a call computes equals the stored one (the call
\* is served from the cache), a fresh build at that call, under some
\* similarity scores, produces the stored feature list and message.
C2_EqualChecksumSameBuild ==
    last.kind = "hit" =>
        \E high \in AnyScores :
            LET fresh == _get_code_message(last.call.prompt, last.call.model,
                                           last.call.max_tokens, high)
            IN  fresh.features = features /\ fresh.message = last.ret

\* C3: a call builds exactly when no message is stored or the checksum it
\* computes differs from the stored one; otherwise it returns the stored
\* message and leaves the cache and the feature list alone; a build that
\* completes stores its message and a checksum taken over the state it
\* leaves.
C3_Step ==
    /\ calls' = calls + 1 =>
           IF \/ _code_message = NoMessage
              \/ _get_code_message_checksum(last'.call.max_tokens) # _code_message_checksum
           THEN last'.kind = "start" /\ pc'[last'.task] = "count"
           ELSE /\ last'.kind = "hit" /\ last'.ret = _code_message
                /\ UNCHANGED <<pc, features, _code_message, _code_message_checksum>>
    /\ last'.kind = "built" =>
           /\ _code_message' = last'.ret
           /\ _code_message_checksum' =
                  Checksum(features', code_map', config', include_files', content',
                           last'.call.max_tokens)

C3_BuildExactlyOnMiss == [][C3_Step]_vars

\* A call rebuilds over a stored message, right after a file was written.
C3_Witness ==
    last.kind = "start" /\ _code_message # NoMessage /\ last.prev.kind = "env"

\* C4: a call made right after a completed call, with the same max_tokens,
\* is served from the cache and returns the same message.
C4_Idempotent ==
    /\ last.kind \in {"hit", "start"}
    /\ last.prev.kind \in {"hit", "built"}
    /\ last.prev.max_tokens = last.call.max_tokens
    => last.kind = "hit" /\ last.ret = last.prev.ret

\* The second call follows a build that switched code_map off and replaced
\* the feature list.
C4_Witness ==
    /\ last.kind = "hit" /\ last.prev.kind = "built"
    /\ ~code_map /\ features # <<>>

\* C5: no step of a build that has not completed - its start, its
\* resumptions, its cancellation - changes the stored message or the
\* stored checksum.
C5_CancelKeepsCache ==
    [][last'.kind \in {"start", "count", "search", "cancel"}
          => UNCHANGED <<_code_message, _code_message_checksum>>]_vars

\* A build is cancelled at the selector while a message is stored.
C5_Witness ==
    last.kind = "cancel" /\ last.at = "select" /\ _code_message # NoMessage

\* C6: at most one build is in progress at any time.
C6_OneBuildAtATime ==
    Cardinality({t \in Tasks : pc[t] # "idle"}) <= 1

PathsIn(fs) == {fs[i].path : i \in 1..Len(fs)}

\* C7: after a completed build every included path is in the feature list,
\* at the level it was included at or - where the catalog splits files into
\* line ranges - at least at INTERVAL.
C7_PinnedPrecedence ==
    Built =>
        \A p \in DOMAIN include_files : \A k \in 1..Len(include_files[p]) :
            \E i \in 1..Len(features) :
                /\ features[i].path = p
                /\ Rank(features[i].level) >=
                       Min(Rank(include_files[p][k].level), Rank("INTERVAL"))

\* C8: with similarity ranking out of play, a build from the same state
\* with a larger max_tokens represents at least as many paths as the build
\* that has just completed.
C8_MonotoneInBudget ==
    Built /\ (last.call.prompt = "" \/ ~config.use_embeddings) =>
        \A larger \in BuildBudgets :
            larger >= last.call.max_tokens =>
                Cardinality(PathsIn(_get_code_message(last.call.prompt, last.call.model,
                                                      larger, {}).features))
                    >= Cardinality(PathsIn(features))

\* What max_tokens leaves after the preamble and the included features, and
\* the pool the allocator is to make of it.
LeftOver(c) ==
    c.max_tokens - count_tokens(MetaLines(annotations), c.model)
                 - c.included_feature_tokens

ExpectedPool(c) ==
    IF config.auto_tokens = AutoNone THEN Max(0, LeftOver(c))
    ELSE Min(Max(0, LeftOver(c)), config.auto_tokens)

\* The pool a build gave the selector on top of the included features; 0
\* when it did not run the selector.
Pool(c) == IF c.selected THEN c.selectable_tokens - c.included_feature_tokens ELSE 0

PoolAsExpected(c) ==
    /\ Pool(c) = ExpectedPool(c)
    /\ Pool(c) >= 0
    /\ LeftOver(c) > 0 => Pool(c) <= LeftOver(c)

\* C9: the pool of every build - completed, or waiting for the ranking or
\* the selector - is max(0, max_tokens - preamble - included), reduced to
\* the configured limit when one is set; it is never negative and never
\* more than that difference when the difference is positive.
C9_AutoPool ==
    /\ Built => PoolAsExpected(last.call)
    /\ \A t \in Tasks : pc[t] \in {"search", "select"} => PoolAsExpected(frame[t])

\* A build whose pool is the configured limit, less than what was left.
C9_Witness ==
    /\ Built /\ last.call.selected
    /\ config.auto_tokens = AutoLimit
    /\ Pool(last.call) = AutoLimit /\ LeftOver(last.call) > AutoLimit

\* C10: a build whose pool is 0 does not run the selector, and its feature
\* list is the included features, each at its level, in the order of their
\* repository-relative paths.
C10_PinnedOnly ==
    Built /\ ExpectedPool(last.call) = 0 =>
        /\ ~last.call.selected
        /\ Len(features) = SumSeq([p \in 1..NumPaths |->
                               IF p \in DOMAIN include_files
                               THEN Len(include_files[p]) ELSE 0])
        /\ \A p \in DOMAIN include_files : \A k \in 1..Len(include_files[p]) :
               \E i \in 1..Len(features) :
                   /\ features[i].path = p
                   /\ features[i].interval = include_files[p][k].interval
                   /\ features[i].level = include_files[p][k].level
        /\ \A i, j \in 1..Len(features) :
               i < j => RelativeTo(features[i].path) <= RelativeTo(features[j].path)

\* Two files are included; the first alone costs more than max_tokens, and
\* a limit of 0 is not what empties the pool.
C10_Witness ==
    /\ Built /\ ~last.call.selected /\ config.auto_tokens # 0
    /\ Len(features) = 2 /\ features[1].path # features[2].path
    /\ features[1].level = "CODE"
    /\ FeatureTokens(features[1], content, last.call.model) > last.call.max_tokens

\* C11: no path of include_files maps to two features whose intervals
\* overlap or are the same.
C11_NoOverlappingPins ==
    \A p \in DOMAIN include_files :
        \A i, j \in 1..Len(include_files[p]) :
            i < j => ~Intersects(include_files[p][i].interval,
                                 include_files[p][j].interval)

\* ------------------------------------------------------ calls in sequence
\* The fields of the engine that get_code_message reads and writes.
Engine ==
    [features |-> features, code_map |-> code_map, config |-> config,
     _code_message |-> _code_message,
     _code_message_checksum |-> _code_message_checksum]

\* The build's effect on the engine e, when it runs to its end.
BuiltEngine(e, code_message_checksum, prompt, model, max_tokens) ==
    LET cm == set_code_map(e.config, ctags_disabled)
        build == _get_code_message(prompt, model, max_tokens, {})
    IN  [features |-> build.features, code_map |-> cm[1], config |-> cm[2],
         _code_message |-> AwaitAssign(TRUE, e._code_message, build.message),
         _code_message_checksum |->
             StoredChecksum(code_message_checksum,
                 Checksum(build.features, cm[1], cm[2], include_files, content,
                          max_tokens))]

get_code_message_first_kept(e, prompt, model, max_tokens) ==
    LET code_message_checksum ==
            Checksum(e.features, e.code_map, e.config, include_files, content,
                     max_tokens)
        after == BuiltEngine(e, code_message_checksum, prompt, model, max_tokens)
    IN  IF NeedsBuild(e._code_message, e._code_message_checksum, code_message_checksum)
        THEN [engine |-> IF e._code_message = NoMessage THEN after
                         ELSE [after EXCEPT
                                 !._code_message = e._code_message,
                                 !._code_message_checksum = e._code_message_checksum],
              built |-> TRUE, checksum |-> code_message_checksum,
              ret |-> after._code_message]
        ELSE [engine |-> e, built |-> FALSE, checksum |-> code_message_checksum,
              ret |-> e._code_message]

\* get_code_message, lines 228-237, run on the engine e from entry to return
\* with nothing else running in between (all similarity scores equal): the
\* engine afterwards, whether the builder ran, the checksum computed on
\* entry, and the message returned.
get_code_message(e, prompt, model, max_tokens) ==
    LET code_message_checksum ==
            Checksum(e.features, e.code_map, e.config, include_files, content,
                     max_tokens)
        after == BuiltEngine(e, code_message_checksum, prompt, model, max_tokens)
    IN  IF NeedsBuild(e._code_message, e._code_message_checksum, code_message_checksum)
        THEN [engine |-> after, built |-> TRUE, checksum |-> code_message_checksum,
              ret |-> after._code_message]
        ELSE [engine |-> e, built |-> FALSE, checksum |-> code_message_checksum,
              ret |-> e._code_message]

\* The outcome of a call made on the engine e with the parameters of the
\* last call and max_tokens.
Outcome(e, max_tokens) ==
    {get_code_message(e, last.call.prompt, last.call.model, max_tokens)}

\* The checksums of the three calls are A, B, A with A # B.
ChecksumsABA(r1, r2, r3) == r1.checksum = r3.checksum /\ r1.checksum # r2.checksum

\* After a call the slot holds the message the call returned, and a call
\* that did not build left the slot as it was.
SlotFollows(before, r) ==
    /\ r.engine._code_message = r.ret
    /\ ~r.built =>
           /\ r.engine._code_message = before._code_message
           /\ r.engine._code_message_checksum = before._code_message_checksum

Catalog == _get_all_features(include_files, ignore_files, annotations, code_map,
                             "INTERVAL", content)

Ranked(fr) ==
    IF fr.prompt # "" /\ config.use_embeddings
    THEN {SortedByScore(Catalog, [i \in 1..Len(Catalog) |-> IF i \in high THEN 1 ELSE 0]) :
             high \in AnyScores}
    ELSE {Catalog}

UserIncluded(fs) == SelectSeq(fs, LAMBDA f : f.user_included)
NotIncluded(fs) == SelectSeq(fs, LAMBDA f : ~f.user_included)

\* C13: in the candidate list handed to the selector every user-included
\* candidate precedes every other candidate; the list is a permutation of
\* the ranked list, and the user-included candidates, and the others, are
\* in the order the ranked list has them in.
C13_IncludedFirst ==
    \A t \in Tasks :
        pc[t] = "select" =>
            LET c == frame[t].candidate_features
            IN  /\ \A i, j \in 1..Len(c) :
                       i < j /\ c[j].user_included => c[i].user_included
                /\ \E ranked \in Ranked(frame[t]) :
                       /\ Len(c) = Len(ranked)
                       /\ \A f \in {ranked[i] : i \in 1..Len(ranked)} :
                              Cardinality({i \in 1..Len(c) : c[i] = f}) =
                              Cardinality({i \in 1..Len(ranked) : ranked[i] = f})
                       /\ UserIncluded(c) = UserIncluded(ranked)
                       /\ NotIncluded(c) = NotIncluded(ranked)

\* A ranked build whose first candidate is user-included although the
\* catalog starts with a file that is not, and that has two candidates of
\* each kind.
C13_Witness ==
    \E t \in Tasks :
        /\ pc[t] = "select"
        /\ frame[t].prompt # "" /\ config.use_embeddings
        /\ Len(UserIncluded(frame[t].candidate_features)) >= 2
        /\ Len(NotIncluded(frame[t].candidate_features)) >= 2
        /\ ~Catalog[1].user_included
        /\ frame[t].candidate_features[1].user_included

\* _get_all_features when get_non_gitignored_files yields the paths in the
\* order `order`.
RECURSIVE AllFeaturesInOrder(_, _, _, _, _, _, _)
AllFeaturesInOrder(order, inc, ign, annot, cm, level, cont) ==
    IF order = <<>> THEN <<>>
    ELSE LET rest == AllFeaturesInOrder(Tail(order), inc, ign, annot, cm, level, cont)
         IN  IF Skipped(Head(order), ign, cont) THEN rest
             ELSE PathFeatures(Head(order), inc, annot, cm, level, cont) \o rest

CatalogInOrder(order, cm, level) ==
    LET all_features == AllFeaturesInOrder(order, include_files, ignore_files,
                                           annotations, cm, level, content)
    IN  SortedBy(all_features,
                 [i \in 1..Len(all_features) |-> RelativeTo(all_features[i].path)])

C17_FeaturesWithMessage ==
    [][features' # features =>
          /\ last'.kind = "built"
          /\ _code_message' =
                 BuildMessage(last'.call.code_message, features', content')]_vars

\* The events of a sequence of queue items (the None markers left out).
Events(items) == SelectSeq(items, LAMBDA item : item # NoEvent)

\* Everything put in the queue of a subscribe context so far, in order.
Delivered(q) == received[q] \o queue[q]

InSeq(e, s) == \E i \in 1..Len(s) : s[i] = e

PublishedEvent(m) == Event(publishes[m].channel, m)

\* C15: when join has returned, every event published before the join on a
\* channel that was subscribed at the time has left the backend's queue and
\* is in the queue of every subscriber that was registered when the listener
\* dispatched it.
C15_JoinAfterDispatch ==
    joiner.at = "returned" =>
        \A m \in 1..joiner.seen :
            publishes[m].subscribed =>
                /\ ~InSeq(PublishedEvent(m), _published)
                /\ dispatched[m] # NotDispatched
                /\ \A q \in dispatched[m] : InSeq(PublishedEvent(m), Delivered(q))

\* A join that had to wait has returned, and an event published before it
\* reached a subscriber.
C15_Witness ==
    /\ joiner.at = "returned" /\ joiner.waited
    /\ \E m \in 1..joiner.seen :
           /\ publishes[m].subscribed
           /\ dispatched[m] # NotDispatched /\ dispatched[m] # {}

OpenContexts(channel) ==
    {q \in Queues : context[q].at = "open" /\ context[q].channel = channel}

\* C16: a channel is subscribed at the backend exactly while a subscribe
\* context on it is open, and its subscriber set is the queues of the open
\* contexts, however the contexts were left.
C16_RefCounted ==
    \A channel \in Channels :
        /\ channel \in _subscribed <=> OpenContexts(channel) # {}
        /\ channel \in DOMAIN _subscribers <=> OpenContexts(channel) # {}
        /\ SubscribersOf(_subscribers, channel) = OpenContexts(channel)

\* C18: no published event is lost: it waits in the missed-event buffer or
\* in the backend's queue, or it has been put in the queue of a subscriber.
C18_NoEventDropped ==
    \A m \in 1..Len(publishes) :
        \/ InSeq(PublishedEvent(m), _missed_events[publishes[m].channel])
        \/ InSeq(PublishedEvent(m), _published)
        \/ dispatched[m] # NotDispatched /\ dispatched[m] # {}

\* C19: the events a channel missed are handed to the subscriber whose
\* subscribe call replayed them: each is still to be dispatched, or is in
\* that subscriber's queue.
C19_MissedReachSubscriber ==
    \A q \in Queues : \A i \in 1..Len(replayed[q]) :
        \/ InSeq(replayed[q][i], _published)
        \/ InSeq(replayed[q][i], Delivered(q))

\* C20: a subscriber gets events of its own channel only, none twice, in the
\* order they were published (messages are numbered in publish order).
C20_OwnChannelInOrder ==
    \A q \in Queues :
        LET events == Events(Delivered(q))
        IN  /\ \A i \in 1..Len(events) : events[i].channel = context[q].channel
            /\ \A i, j \in 1..Len(events) :
                   i < j => events[i].message < events[j].message

\* A subscriber that arrived after its channel had been left has received a
\* replayed missed event and then one published after it subscribed.
C20_Witness ==
    \E q \in Queues :
        /\ \E p \in Queues : p < q /\ context[p].at = "left"
                                /\ context[p].channel = context[q].channel
        /\ Len(replayed[q]) > 0
        /\ Len(Events(received[q])) >= 2
        /\ Events(received[q])[1] = replayed[q][1]
        /\ publishes[Events(received[q])[2].message].subscribed

\* The None markers among the items of a queue.
Markers(items) == Len(SelectSeq(items, LAMBDA item : item = NoEvent))

\* What iterating the Subscriber has yielded: the items taken before the
\* first None, at which __aiter__ ends.
RECURSIVE Yielded(_)
Yielded(items) ==
    IF items = <<>> \/ Head(items) = NoEvent THEN <<>>
    ELSE <<Head(items)>> \o Yielded(Tail(items))

\* C21: the step that leaves a subscribe context, normally or through an
\* exception, puts one None after everything put in its queue so far, where
\* there was none before, and no other step puts a None in that queue; so
\* what the iteration can yield before it ends is every event delivered
\* before the context was left.
C21_OneMarkerOnLeaving ==
    [][\A q \in Queues :
          /\ context[q].at = "open" /\ context'[q].at # "open" =>
                 /\ Markers(Delivered(q)) = 0
                 /\ received'[q] \o queue'[q] = Append(Delivered(q), NoEvent)
                 /\ Yielded(received'[q] \o queue'[q]) = Delivered(q)
          /\ context'[q].at = context[q].at =>
                 /\ Markers(received'[q] \o queue'[q]) = Markers(Delivered(q))
                 /\ context[q].at # "open" =>
                        Yielded(received'[q] \o queue'[q]) = Yielded(Delivered(q))]_bvars

\* A subscriber whose body raised has taken an event and then the None; its
\* queue, still registered, has been given a later event.
C21_Witness ==
    \E q \in Queues :
        /\ context[q].at = "raised"
        /\ Len(received[q]) = 2
        /\ received[q][1] # NoEvent /\ received[q][2] = NoEvent
        /\ queue[q] # <<>>

====
